---------------------------- MODULE Spec2Model ----------------------------
(***************************************************************************)
(* Maelstrom node (src/src/main.rs, built with the "broadcast" feature)    *)
(* and the networked storage backend (src/src/storage.rs).                 *)
(*                                                                         *)
(*   Spec        one node process fed arbitrary envelopes on its stdin     *)
(*   SpecWrap    the same process, started with its id counter close to    *)
(*               i32::MAX (the state after about 2^32 emitted envelopes)   *)
(*   SpecGossip  a cluster of node processes joined by a network that      *)
(*               delivers every envelope, in any order                     *)
(*   SpecLossy   the cluster, every node past its init, on a network that  *)
(*               may lose envelopes                                        *)
(*   SpecStorage the storage backend serving several connections           *)
(*   SpecSerial  the storage backend when every Store request is sent      *)
(*               after the Store before it was answered                    *)
(***************************************************************************)
EXTENDS Integers, Sequences, FiniteSets, TLC

VARIABLES
    node,       \* process -> the fields of its Node struct
    running,    \* process -> FALSE once the process has panicked
    handled,    \* number of envelopes the process under test has read so far
    inbound,    \* the envelope it read last
    outbound,   \* the envelopes that process wrote while handling it, in order
    prev,       \* the Node struct of that process before it handled it
    network,    \* envelopes in flight between the processes (SpecGossip)
    sent,       \* number of broadcast requests the harness has sent (SpecGossip)
    accepted,   \* values an initialized node took in through a broadcast request
    flooded,    \* values taken in by a node that had its id and its full neighbour list
    relayed,    \* process -> rumor id -> number of times it wrote Rumor envelopes with that id
    reads,      \* the harness's read request: "none", "sent", or "handled" by its node (SpecLossy)
    map,        \* Storage.map: key -> log (storage backend)
    conn,       \* connection -> the position of its task and the request it serves
    answered,   \* the Store requests answered so far: number, key, msg, offset
    stores      \* number of Store requests read so far

nodeVars    == <<node, running, handled, inbound, outbound, prev>>
clusterVars == <<network, sent, accepted, flooded, relayed, reads>>
storageVars == <<map, conn, answered, stores>>
vars        == <<nodeVars, clusterVars, storageVars>>

---------------------------------------------------------------------------
(* Bounds of the model *)

MaxHandled == 4     \* envelopes one process reads in Spec and SpecWrap
MaxBroadcasts == 1  \* broadcast requests the harness sends in SpecGossip
MaxStores == 3      \* Store requests the backend reads in SpecStorage

(* Program constants *)

I32Max == 2147483647
I32Min == (-I32Max) - 1
MalformedRequest == 12
NotSupported == 10

---------------------------------------------------------------------------
(* Data *)

Procs == {"n1", "n2"}               \* the node processes
Self == "n1"                        \* the process Spec and SpecWrap follow
NodeIds == {"n1", "n2"}             \* ids an envelope of Spec may name
Uuids == {"u1", "u2"}               \* outcomes of Uuid::new_v4() in play
Values == {1, 2}                    \* broadcast values in play

NoId == "None"                      \* Option<String>::None
NoneI == <<>>                       \* Option<i32>::None
Some(x) == <<x>>

Created == "Created"
Initialized == "Initialized"

Range(s) == {s[i] : i \in 1..Len(s)}
Contains(s, x) == \E i \in 1..Len(s) : s[i] = x

(* serde_json::Value of a topology payload: an object whose entries are
   either arrays of strings or something else, or a value that is no object *)
Arr(items) == [kind |-> "array", items |-> items]
NotArr == [kind |-> "other"]
Obj(entries) == [kind |-> "object", entries |-> entries]
NotObj == [kind |-> "other"]

FullMesh == Obj([n \in Procs |-> Arr(IF n = "n1" THEN <<"n2">> ELSE <<"n1">>)])
Star == Obj([n \in Procs |-> Arr(IF n = "n1" THEN <<"n2", "n3">> ELSE <<"n1">>)])
NoN1 == Obj([n \in {"n2"} |-> Arr(<<"n1">>)])
BadShape == Obj([n \in Procs |-> NotArr])
Topologies == {FullMesh, Star, NoN1, BadShape, NotObj}

AckTypes == {"init_ok", "echo_ok", "generate_ok", "broadcast_ok", "read_ok",
             "topology_ok", "add_ok", "rumor_ok"}

(* Payload, as serde decodes it from the "type" tag *)
Payloads ==
    {[type |-> "init", node_id |-> i, node_ids |-> <<"n1", "n2">>] : i \in NodeIds}
    \cup {[type |-> "echo", echo |-> "hi"]}
    \cup {[type |-> "generate"]}
    \cup {[type |-> "broadcast", message |-> v] : v \in Values}
    \cup {[type |-> "read"]}
    \cup {[type |-> "topology", topology |-> t] : t \in Topologies}
    \cup {[type |-> "rumor", id |-> u, data |-> v] : u \in Uuids, v \in Values}
    \cup {[type |-> "error", code |-> MalformedRequest]}
    \cup {[type |-> t] : t \in AckTypes}

(* a tag the Payload enum of this build does not have *)
UnknownPayloads == {[type |-> "send"]}

Message(src, dst, msg_id, in_reply_to, payload) ==
    [src |-> src, dst |-> dst,
     body |-> [msg_id |-> msg_id, in_reply_to |-> in_reply_to, payload |-> payload]]

(* the lines the process of Spec may find on its stdin *)
Origins == {<<"c1", Some(1)>>, <<"n2", NoneI>>}    \* src and msg_id
Envelopes ==
    {Message(o[1], d, o[2], NoneI, p) :
        o \in Origins, d \in NodeIds, p \in Payloads \cup UnknownPayloads}

NoMessage == Message("", "", NoneI, NoneI, [type |-> "nothing"])

---------------------------------------------------------------------------
(* Node *)

new ==
    [state |-> Created,
     next_message_id |-> I32Min,
     id |-> NoId,
     all_node_ids |-> <<>>,
     broadcast_messages |-> <<>>,
     heard_rumors |-> <<>>,
     neighbours |-> <<>>]

(* self.next_message_id += 1 in a build without overflow checks: wraps *)
next_message_id(c) == IF c = I32Max THEN I32Min ELSE c + 1

wrap_payload_keeps_src(nd, payload, src, dst, msg_id) ==
    [node |-> [nd EXCEPT !.next_message_id = next_message_id(@)],
     message |-> Message(src, dst, Some(next_message_id(nd.next_message_id)),
                         msg_id, payload)]

wrap_payload(nd, payload, src, dst, msg_id) ==
    [node |-> [nd EXCEPT !.next_message_id = next_message_id(@)],
     message |-> Message(IF nd.id # NoId THEN nd.id ELSE src, dst,
                         Some(next_message_id(nd.next_message_id)),
                         msg_id, payload)]

RECURSIVE spread_loop(_, _, _, _)
spread_loop(nd, payload, id, neighbours) ==
    IF neighbours = <<>>
    THEN [node |-> nd, out |-> <<>>]
    ELSE LET w == wrap_payload(nd, payload, id, Head(neighbours), NoneI)
             rest == spread_loop(w.node, payload, id, Tail(neighbours))
         IN  [node |-> rest.node, out |-> <<w.message>> \o rest.out]

spread_skips_last(nd, payload) ==
    IF nd.id = NoId
    THEN [node |-> nd, out |-> <<>>]
    ELSE spread_loop(nd, payload, nd.id, SubSeq(nd.neighbours, 1, Len(nd.neighbours) - 1))

spread(nd, payload) ==
    IF nd.id = NoId
    THEN [node |-> nd, out |-> <<>>]
    ELSE spread_loop(nd, payload, nd.id, nd.neighbours)

wrap_err(err) ==
    [type |-> "error",
     code |-> IF err = "CurrentlyUnsupported" THEN NotSupported ELSE MalformedRequest,
     text |-> err]

Ok(nd, out, payload) == [node |-> nd, out |-> out, ok |-> TRUE, payload |-> payload]
Err(nd, err) == [node |-> nd, out |-> <<>>, ok |-> FALSE, err |-> err]

(* the addressing check at the head of proceed_message *)
no_id_mismatch(nd, message) == FALSE

id_mismatch(nd, message) == nd.id # NoId /\ nd.id # message.dst

init_unchecked(nd, payload) ==
    Ok([nd EXCEPT !.id = payload.node_id,
                  !.all_node_ids = payload.node_ids,
                  !.state = Initialized],
       <<>>, [type |-> "init_ok"])

proceed_init(nd, payload) ==
    IF nd.state # Created
    THEN Err(nd, "UnacceptablePayloadType")
    ELSE Ok([nd EXCEPT !.id = payload.node_id,
                       !.all_node_ids = payload.node_ids,
                       !.state = Initialized],
            <<>>, [type |-> "init_ok"])

proceed_echo(nd, payload) ==
    IF nd.state # Initialized
    THEN Err(nd, "UnacceptablePayloadType")
    ELSE Ok(nd, <<>>, [type |-> "echo_ok", echo |-> payload.echo])

proceed_generate(nd, uuid) == Ok(nd, <<>>, [type |-> "generate_ok", id |-> uuid])

broadcast_forgets_rumor(nd, payload, rumor_id) ==
    LET pushed == [nd EXCEPT !.broadcast_messages = Append(@, payload.message)]
        s == spread(pushed, [type |-> "rumor", id |-> rumor_id, data |-> payload.message])
    IN  Ok(s.node, s.out, [type |-> "broadcast_ok"])

broadcast_once(nd, payload, rumor_id) ==
    LET pushed == [nd EXCEPT
                      !.broadcast_messages = Append(@, payload.message),
                      !.heard_rumors = Append(@, rumor_id)]
        s == spread(pushed, [type |-> "rumor", id |-> rumor_id, data |-> payload.message])
    IN  IF Contains(nd.broadcast_messages, payload.message)
        THEN Ok(nd, <<>>, [type |-> "broadcast_ok"])
        ELSE Ok(s.node, s.out, [type |-> "broadcast_ok"])

proceed_broadcast(nd, payload, rumor_id) ==
    LET pushed == [nd EXCEPT
                      !.broadcast_messages = Append(@, payload.message),
                      !.heard_rumors = Append(@, rumor_id)]
        s == spread(pushed, [type |-> "rumor", id |-> rumor_id, data |-> payload.message])
    IN  Ok(s.node, s.out, [type |-> "broadcast_ok"])

read_drains(nd) ==
    Ok([nd EXCEPT !.broadcast_messages = <<>>], <<>>,
       [type |-> "read_ok", messages |-> nd.broadcast_messages])

proceed_read(nd) == Ok(nd, <<>>, [type |-> "read_ok", messages |-> nd.broadcast_messages])

topology_clears_first(nd, payload) ==
    LET topology == payload.topology
        cleared == [nd EXCEPT !.neighbours = <<>>]
    IN
    IF nd.id = NoId THEN Err(nd, "UnacceptablePayloadType")
    ELSE IF topology.kind # "object" THEN Err(cleared, "IllegalPayload")
    ELSE IF nd.id \notin DOMAIN topology.entries THEN Err(cleared, "IllegalPayload")
    ELSE IF topology.entries[nd.id].kind # "array" THEN Err(cleared, "IllegalPayload")
    ELSE Ok([nd EXCEPT !.neighbours = topology.entries[nd.id].items],
            <<>>, [type |-> "topology_ok"])

topology_extends(nd, payload) ==
    LET topology == payload.topology IN
    IF nd.id = NoId THEN Err(nd, "UnacceptablePayloadType")
    ELSE IF topology.kind # "object" THEN Err(nd, "IllegalPayload")
    ELSE IF nd.id \notin DOMAIN topology.entries THEN Err(nd, "IllegalPayload")
    ELSE IF topology.entries[nd.id].kind # "array" THEN Err(nd, "IllegalPayload")
    ELSE Ok([nd EXCEPT !.neighbours = @ \o topology.entries[nd.id].items],
            <<>>, [type |-> "topology_ok"])

proceed_topology(nd, payload) ==
    LET topology == payload.topology IN
    IF nd.id = NoId THEN Err(nd, "UnacceptablePayloadType")
    ELSE IF topology.kind # "object" THEN Err(nd, "IllegalPayload")
    ELSE IF nd.id \notin DOMAIN topology.entries THEN Err(nd, "IllegalPayload")
    ELSE IF topology.entries[nd.id].kind # "array" THEN Err(nd, "IllegalPayload")
    ELSE Ok([nd EXCEPT !.neighbours = topology.entries[nd.id].items],
            <<>>, [type |-> "topology_ok"])

rumor_not_relayed(nd, payload) ==
    IF ~Contains(nd.heard_rumors, payload.id)
    THEN Ok([nd EXCEPT !.broadcast_messages = Append(@, payload.data),
                       !.heard_rumors = Append(@, payload.id)],
            <<>>, [type |-> "rumor_ok"])
    ELSE Ok(nd, <<>>, [type |-> "rumor_ok"])

rumor_relays_seen(nd, payload) ==
    LET pushed == IF ~Contains(nd.heard_rumors, payload.id)
                  THEN [nd EXCEPT !.broadcast_messages = Append(@, payload.data),
                                  !.heard_rumors = Append(@, payload.id)]
                  ELSE nd
        s == spread(pushed, [type |-> "rumor", id |-> payload.id, data |-> payload.data])
    IN  Ok(s.node, s.out, [type |-> "rumor_ok"])

rumor_unchecked(nd, payload) ==
    LET pushed == [nd EXCEPT
                      !.broadcast_messages = Append(@, payload.data),
                      !.heard_rumors = Append(@, payload.id)]
        s == spread(pushed, [type |-> "rumor", id |-> payload.id, data |-> payload.data])
    IN  Ok(s.node, s.out, [type |-> "rumor_ok"])

proceed_rumor(nd, payload) ==
    IF ~Contains(nd.heard_rumors, payload.id)
    THEN LET pushed == [nd EXCEPT
                           !.broadcast_messages = Append(@, payload.data),
                           !.heard_rumors = Append(@, payload.id)]
             s == spread(pushed,
                         [type |-> "rumor", id |-> payload.id, data |-> payload.data])
         IN  Ok(s.node, s.out, [type |-> "rumor_ok"])
    ELSE Ok(nd, <<>>, [type |-> "rumor_ok"])

proceed_error(nd) == Err(nd, "IllegalPayloadType")

ack_illegal(nd) == Err(nd, "IllegalPayloadType")

proceed_ack(nd) == Err(nd, "DontReply")

proceed_message(nd, message, uuid) ==
    LET payload == message.body.payload IN
    IF id_mismatch(nd, message) THEN Err(nd, "NodeIdMismatch")
    ELSE CASE payload.type = "init" -> proceed_init(nd, payload)
           [] payload.type = "echo" -> proceed_echo(nd, payload)
           [] payload.type = "generate" -> proceed_generate(nd, uuid)
           [] payload.type = "broadcast" -> proceed_broadcast(nd, payload, uuid)
           [] payload.type = "read" -> proceed_read(nd)
           [] payload.type = "topology" -> proceed_topology(nd, payload)
           [] payload.type = "rumor" -> proceed_rumor(nd, payload)
           [] payload.type = "error" -> proceed_error(nd)
           [] payload.type \in AckTypes -> proceed_ack(nd)

(* build_reply and handle_message: the envelopes written while one message
   is handled, the spread ones first, then the reply if there is one *)
build_reply(nd, message, uuid) ==
    LET r == proceed_message(nd, message, uuid) IN
    IF ~r.ok /\ r.err = "DontReply"
    THEN [node |-> r.node, out |-> r.out]
    ELSE LET w == wrap_payload(r.node,
                               IF r.ok THEN r.payload ELSE wrap_err(r.err),
                               message.dst, message.src, message.body.msg_id)
         IN  [node |-> w.node, out |-> r.out \o <<w.message>>]

(* serde's decoding of one stdin line into a Message *)
Parses(line) == line.body.payload.type \notin {p.type : p \in UnknownPayloads}

(* whether a payload draws a Uuid::new_v4() *)
DrawsUuid(message) == message.body.payload.type \in {"generate", "broadcast"}

(* increments left before next_message_id passes i32::MAX (i32::MAX or
   more of them while the counter is not positive) *)
Room(c) == IF c <= 0 THEN I32Max ELSE I32Max - c


---------------------------------------------------------------------------
(* One iteration of the loop of Node::run in process p: `line` is read from
   stdin; a line that does not decode is skipped; otherwise handle_message
   writes the envelopes of build_reply. With overflow checks compiled in,
   the increment of next_message_id past i32::MAX panics instead of
   wrapping: the process ends after the envelopes written before it. *)

Unused(uuid) ==
    /\ \A q \in Procs : ~Contains(node[q].heard_rumors, uuid)
    /\ \A m \in network : m.body.payload.type = "rumor" => m.body.payload.id # uuid

Written(p, line, uuid, overflow_checks) ==
    LET r == build_reply(node[p], line, uuid)
        room == Room(node[p].next_message_id)
    IN  IF ~Parses(line) THEN [node |-> node[p], out |-> <<>>, panic |-> FALSE]
        ELSE IF overflow_checks /\ Len(r.out) > room
        THEN [node |-> [r.node EXCEPT !.next_message_id = I32Max],
              out |-> SubSeq(r.out, 1, room), panic |-> TRUE]
        ELSE [node |-> r.node, out |-> r.out, panic |-> FALSE]

run(p, line, uuid, overflow_checks) ==
    LET w == Written(p, line, uuid, overflow_checks) IN
    /\ running[p]
    /\ line.body.payload.type = "broadcast" => Unused(uuid)
    /\ node' = [node EXCEPT ![p] = w.node]
    /\ running' = [running EXCEPT ![p] = ~w.panic]

(* what the properties look at: the line, the struct before, the output *)
Observed(p, line, uuid, overflow_checks) ==
    /\ inbound' = [proc |-> p, message |-> line]
    /\ outbound' = Written(p, line, uuid, overflow_checks).out
    /\ prev' = node[p]
    /\ handled' = handled + 1

(* the outcomes of Uuid::new_v4() that matter to a line, and the builds
   (with or without overflow checks) that differ on what process p does next *)
Drawn(line) == IF DrawsUuid(line) THEN Uuids ELSE {"u1"}
Builds(p) == IF Room(node[p].next_message_id) < I32Max THEN BOOLEAN ELSE {FALSE}

(* stdin of the process under test: any envelope, from anyone *)
Stdin ==
    /\ handled < MaxHandled
    /\ \E line \in Envelopes :
         \E uuid \in Drawn(line), overflow_checks \in Builds(Self) :
           /\ run(Self, line, uuid, overflow_checks)
           /\ Observed(Self, line, uuid, overflow_checks)
    /\ UNCHANGED <<clusterVars, storageVars>>

---------------------------------------------------------------------------
(* Cluster: the harness (client c1) has sent each process its init and the
   full-mesh topology, and sends broadcast requests; the network hands every
   envelope addressed to a process to that process's stdin, in any order.
   Envelopes addressed to the client leave the network. *)

ToProcs(out) == {out[i] : i \in {j \in 1..Len(out) : out[j].dst \in Procs}}

harness_init(p) ==
    Message("c1", p, Some(1), NoneI,
            [type |-> "init", node_id |-> p, node_ids |-> <<"n1", "n2">>])

harness_topology(p) ==
    Message("c1", p, Some(2), NoneI, [type |-> "topology", topology |-> FullMesh])

harness_broadcast(p, v) ==
    /\ sent < MaxBroadcasts
    /\ sent' = sent + 1
    /\ network' = network \cup
           {Message("c1", p, Some(3 + sent), NoneI,
                    [type |-> "broadcast", message |-> v])}
    /\ UNCHANGED <<nodeVars, accepted, flooded, relayed, reads, storageVars>>

(* the one read request the harness sends, to process p *)
harness_read(p) ==
    /\ reads = "none"
    /\ reads' = "sent"
    /\ network' = network \cup
           {Message("c1", p, Some(3 + MaxBroadcasts), NoneI, [type |-> "read"])}
    /\ UNCHANGED <<nodeVars, sent, accepted, flooded, relayed, storageVars>>

(* the broadcast arm runs on this line in process p *)
TakesBroadcast(p, line) ==
    line.body.payload.type = "broadcast" /\ ~id_mismatch(node[p], line)

HasFullMesh(p) ==
    node[p].id = p /\ Range(node[p].neighbours) = Procs \ {p}

(* the rumor ids of the Rumor envelopes among the ones written *)
RumorIds(out) ==
    {out[i].body.payload.id : i \in {j \in 1..Len(out) : out[j].body.payload.type = "rumor"}}

deliver(m) ==
    /\ m \in network
    /\ \E uuid \in Drawn(m), overflow_checks \in Builds(m.dst) :
           LET out == Written(m.dst, m, uuid, overflow_checks).out IN
           /\ run(m.dst, m, uuid, overflow_checks)
           /\ network' = (network \ {m}) \cup ToProcs(out)
           /\ relayed' = [relayed EXCEPT ![m.dst] =
                  [u \in Uuids |-> IF u \in RumorIds(out) THEN @[u] + 1 ELSE @[u]]]
    /\ accepted' = IF TakesBroadcast(m.dst, m) /\ node[m.dst].state = Initialized
                   THEN accepted \cup {m.body.payload.message} ELSE accepted
    /\ flooded' = IF TakesBroadcast(m.dst, m) /\ HasFullMesh(m.dst)
                  THEN flooded \cup {m.body.payload.message} ELSE flooded
    /\ reads' = IF m.body.payload.type = "read" THEN "handled" ELSE reads
    /\ UNCHANGED <<sent, handled, inbound, outbound, prev, storageVars>>

Deliver == \E m \in network : deliver(m)

(* the network loses an envelope in flight *)
drop(m) ==
    /\ m \in network
    /\ network' = network \ {m}
    /\ UNCHANGED <<nodeVars, sent, accepted, flooded, relayed, reads, storageVars>>

Drop == \E m \in network : drop(m)

---------------------------------------------------------------------------
(* Storage backend *)

Keys == {"k1", "k2"}
Conns == {"a", "b"}
Msgs == {1, 2}

NoReply == [type |-> "None"]
(* a task waiting for its connection's next packet; reply is what it wrote
   for the packet before *)
Idle == [pc |-> "read", key |-> "", msg |-> 0, offset |-> 0, n |-> 0, reply |-> NoReply]

(* ClientPacket::Hello *)
Hello(c) ==
    /\ conn[c].pc = "read"
    /\ conn' = [conn EXCEPT ![c] = [Idle EXCEPT !.reply = [type |-> "Hello"]]]
    /\ UNCHANGED <<map, answered, stores, nodeVars, clusterVars>>

store_offset_is_len(c, key, msg) ==
    /\ conn[c].pc = "read"
    /\ stores < MaxStores
    /\ stores' = stores + 1
    /\ IF key \in DOMAIN map
       THEN /\ map' = [map EXCEPT ![key] = Append(@, msg)]
            /\ conn' = [conn EXCEPT ![c] = [Idle EXCEPT !.reply =
                            [type |-> "Store", offset |-> Len(map'[key])]]]
            /\ answered' = answered \cup
                   {[n |-> stores', key |-> key, msg |-> msg,
                     offset |-> Len(map'[key])]}
       ELSE /\ conn' = [conn EXCEPT ![c] = [Idle EXCEPT !.pc = "insert", !.key = key,
                                                     !.msg = msg, !.n = stores']]
            /\ UNCHANGED <<map, answered>>
    /\ UNCHANGED <<nodeVars, clusterVars>>

(* ClientPacket::Store, first part: map.get_mut(&key) under the shard's
   write lock. On Some the push and the offset are taken under that lock;
   on None the lock is released before the else branch runs. *)
store_get_mut(c, key, msg) ==
    /\ conn[c].pc = "read"
    /\ stores < MaxStores
    /\ stores' = stores + 1
    /\ IF key \in DOMAIN map
       THEN /\ map' = [map EXCEPT ![key] = Append(@, msg)]
            /\ conn' = [conn EXCEPT ![c] = [Idle EXCEPT !.reply =
                            [type |-> "Store", offset |-> Len(map'[key]) - 1]]]
            /\ answered' = answered \cup
                   {[n |-> stores', key |-> key, msg |-> msg,
                     offset |-> Len(map'[key]) - 1]}
       ELSE /\ conn' = [conn EXCEPT ![c] = [Idle EXCEPT !.pc = "insert", !.key = key,
                                                     !.msg = msg, !.n = stores']]
            /\ UNCHANGED <<map, answered>>
    /\ UNCHANGED <<nodeVars, clusterVars>>

(* ClientPacket::Store, else branch: map.insert(key, vec![msg]); offset 0 *)
store_insert(c) ==
    /\ conn[c].pc = "insert"
    /\ map' = [k \in DOMAIN map \cup {conn[c].key} |->
                  IF k = conn[c].key THEN <<conn[c].msg>> ELSE map[k]]
    /\ conn' = [conn EXCEPT ![c] = [Idle EXCEPT !.reply = [type |-> "Store", offset |-> 0]]]
    /\ answered' = answered \cup
           {[n |-> conn[c].n, key |-> conn[c].key, msg |-> conn[c].msg,
             offset |-> 0]}
    /\ UNCHANGED <<stores, nodeVars, clusterVars>>

get_skips_first(c, key, offset) ==
    /\ conn[c].pc = "read"
    /\ conn' = [conn EXCEPT ![c] = [Idle EXCEPT !.key = key, !.offset = offset, !.reply =
                    [type |-> "Get",
                     values |-> IF key \in DOMAIN map /\ Len(map[key]) > offset
                                THEN SubSeq(map[key], offset + 2, Len(map[key]))
                                ELSE <<>>]]]
    /\ UNCHANGED <<map, answered, stores, nodeVars, clusterVars>>

(* ClientPacket::Get; key and offset are the fields of the packet the task
   keeps while it builds the reply *)
get(c, key, offset) ==
    /\ conn[c].pc = "read"
    /\ conn' = [conn EXCEPT ![c] = [Idle EXCEPT !.key = key, !.offset = offset, !.reply =
                    [type |-> "Get",
                     values |-> IF key \in DOMAIN map /\ Len(map[key]) > offset
                                THEN SubSeq(map[key], offset + 1, Len(map[key]))
                                ELSE <<>>]]]
    /\ UNCHANGED <<map, answered, stores, nodeVars, clusterVars>>

---------------------------------------------------------------------------
(* Specifications *)

InitNodes ==
    /\ node = [p \in Procs |-> new]
    /\ running = [p \in Procs |-> TRUE]
    /\ handled = 0
    /\ inbound = [proc |-> Self, message |-> NoMessage]
    /\ outbound = <<>>
    /\ prev = new

InitCluster ==
    /\ network = {}
    /\ sent = 0
    /\ accepted = {}
    /\ flooded = {}
    /\ relayed = [p \in Procs |-> [u \in Uuids |-> 0]]
    /\ reads = "none"

InitStorage ==
    /\ map = <<>>
    /\ conn = [c \in Conns |-> Idle]
    /\ answered = {}
    /\ stores = 0

Init == InitNodes /\ InitCluster /\ InitStorage

Next == Stdin

Spec == Init /\ [][Next]_vars

(* the process after it has written 2^32 - 3 envelopes, all of them error
   replies to echo requests received before any init *)
InitWrap ==
    /\ node = [p \in Procs |-> IF p = Self
                                THEN [new EXCEPT !.next_message_id = I32Max - 2]
                                ELSE new]
    /\ running = [p \in Procs |-> TRUE]
    /\ handled = 0
    /\ inbound = [proc |-> Self, message |-> NoMessage]
    /\ outbound = <<>>
    /\ prev = [new EXCEPT !.next_message_id = I32Max - 2]
    /\ InitCluster /\ InitStorage

SpecWrap == InitWrap /\ [][Next]_vars

InitGossip ==
    /\ InitNodes /\ InitStorage
    /\ network = {harness_init(p) : p \in Procs} \cup {harness_topology(p) : p \in Procs}
    /\ sent = 0
    /\ accepted = {}
    /\ flooded = {}
    /\ relayed = [p \in Procs |-> [u \in Uuids |-> 0]]
    /\ reads = "none"

NextGossip ==
    \/ \E p \in Procs, v \in Values : harness_broadcast(p, v)
    \/ Deliver

(* every envelope in flight is eventually delivered: NextGossip has no Drop
   step, so the steps the fairness condition asks for are deliveries, and
   an envelope in flight can always be delivered (DeliverEnabled), so the
   condition is that of WF_vars(Deliver) *)
SpecGossip == InitGossip /\ [][NextGossip]_vars /\ WF_vars(Drop \/ Deliver)

DeliverEnabled == (network # {}) => ENABLED Deliver

NextLossy ==
    \/ \E p \in Procs, v \in Values : harness_broadcast(p, v)
    \/ \E p \in Procs : harness_read(p)
    \/ Deliver
    \/ Drop

(* the node of process p after it has handled its init *)
Joined(p) == build_reply(new, harness_init(p), "u1").node

InitLossy ==
    /\ node = [p \in Procs |-> Joined(p)]
    /\ running = [p \in Procs |-> TRUE]
    /\ handled = 0
    /\ inbound = [proc |-> Self, message |-> NoMessage]
    /\ outbound = <<>>
    /\ prev = new
    /\ InitStorage
    /\ network = {harness_topology(p) : p \in Procs}
    /\ sent = 0
    /\ accepted = {}
    /\ flooded = {}
    /\ relayed = [p \in Procs |-> [u \in Uuids |-> 0]]
    /\ reads = "none"

(* every envelope in flight is eventually delivered or dropped *)
SpecLossy == InitLossy /\ [][NextLossy]_vars /\ WF_vars(Drop \/ Deliver)

NextStorage ==
    \/ \E c \in Conns : Hello(c)
    \/ \E c \in Conns, key \in Keys, msg \in Msgs : store_get_mut(c, key, msg)
    \/ \E c \in Conns : store_insert(c)
    \/ \E c \in Conns, key \in Keys, offset \in 0..MaxStores : get(c, key, offset)

SpecStorage == Init /\ [][NextStorage]_vars

(* the clients send their Store requests one after another: a Store is read
   only when no connection has a Store in progress *)
NextSerial ==
    \/ \E c \in Conns : Hello(c)
    \/ \E c \in Conns, key \in Keys, msg \in Msgs :
           /\ \A d \in Conns : conn[d].pc = "read"
           /\ store_get_mut(c, key, msg)
    \/ \E c \in Conns : store_insert(c)
    \/ \E c \in Conns, key \in Keys, offset \in 0..MaxStores : get(c, key, offset)

SpecSerial == Init /\ [][NextSerial]_vars


---------------------------------------------------------------------------
(* Properties.  They read the envelope handled last (inbound), the Node
   struct before it (prev) and after it (Now), and what was written. *)

In == inbound.message
Now == node[inbound.proc]
Type(m) == m.body.payload.type
Decoded == handled > 0 /\ Parses(In)
Knowledge(nd) == Range(nd.broadcast_messages)

IsReplyTo(e, m) == e.dst = m.src /\ e.body.in_reply_to = m.body.msg_id
IsError(e, code) == Type(e) = "error" /\ e.body.payload.code = code
OnlyError(code) ==
    Len(outbound) = 1 /\ IsError(outbound[1], code) /\ IsReplyTo(outbound[1], In)
OnlyReply(type) ==
    Len(outbound) = 1 /\ Type(outbound[1]) = type /\ IsReplyTo(outbound[1], In)
Misaddressed == prev.state = Initialized /\ In.dst # prev.id
SameButCounter(a, b) == [a EXCEPT !.next_message_id = 0] = [b EXCEPT !.next_message_id = 0]

\* C1: a node still in Created answers every non-init request payload with a
\* malformed_request (12) error and leaves the knowledge set, the seen-rumor
\* set and the neighbour list as they were.
C1_CreatedRejectsNonInit ==
    (Decoded /\ prev.state = Created
        /\ Type(In) \in {"echo", "generate", "read", "broadcast", "topology", "rumor"})
    => /\ OnlyError(MalformedRequest)
       /\ Now.broadcast_messages = prev.broadcast_messages
       /\ Now.heard_rumors = prev.heard_rumors
       /\ Now.neighbours = prev.neighbours

\* C2: no two answered Store requests on one key carry the same offset, and
\* once no Store is in progress every answered Store's value sits in the
\* key's log (what Get(key, 0) returns) at the offset it was answered with,
\* the log holding exactly as many values as Stores were answered.
Get0(key) == IF key \in DOMAIN map THEN map[key] ELSE <<>>
C2_StoresDistinctAndKept ==
    /\ \A r1 \in answered, r2 \in answered :
           (r1 # r2 /\ r1.key = r2.key) => r1.offset # r2.offset
    /\ (\A c \in Conns : conn[c].pc = "read") =>
           \A key \in Keys :
               /\ Len(Get0(key)) = Cardinality({r \in answered : r.key = key})
               /\ \A r \in answered :
                      r.key = key => /\ r.offset < Len(Get0(key))
                                     /\ Get0(key)[r.offset + 1] = r.msg

Converged(v) == \A p \in Procs : v \in Knowledge(node[p])

\* C3 as stated: with every envelope delivered, every value a node accepted
\* through a broadcast request eventually is in every node's knowledge set,
\* whatever the delivery order of init, topology, broadcast and rumor.
\* Stated for the values accepted by initialized nodes; a broadcast taken in
\* before init is the case of C1.
\* (Both sets only grow, so once some value is accepted a state follows in
\* which all values accepted up to then are known everywhere.)
C3_AcceptedConverges == (accepted # {}) ~> (\A v \in accepted : Converged(v))

\* C3 as amended: with every envelope delivered, every value accepted through
\* a broadcast request by a node that had already handled its init and its
\* full-mesh topology eventually is in every node's knowledge set, whatever
\* the delivery order of the other envelopes.
C3_FloodedConverges == (flooded # {}) ~> (\A v \in flooded : Converged(v))

C3_Witness ==
    \E v \in flooded :
        /\ Converged(v)
        /\ network = {}

\* C4: the first init records node id and peer set, moves the node to
\* Initialized and is answered init_ok; every later init is answered with a
\* malformed_request error and leaves state, id and peer set alone; nothing
\* returns a node to Created.
C4_InitOnce ==
    /\ (Decoded /\ Type(In) = "init" /\ prev.state = Created)
       => /\ Now.state = Initialized
          /\ Now.id = In.body.payload.node_id
          /\ Now.all_node_ids = In.body.payload.node_ids
          /\ OnlyReply("init_ok")
    /\ (Decoded /\ Type(In) = "init" /\ prev.state # Created)
       => /\ OnlyError(MalformedRequest)
          /\ Now.state = prev.state
          /\ Now.id = prev.id
          /\ Now.all_node_ids = prev.all_node_ids
    /\ (handled > 0 /\ prev.state = Initialized)
       => /\ Now.state = Initialized
          /\ Now.id = prev.id
          /\ Now.all_node_ids = prev.all_node_ids

C4_Witness ==
    /\ Decoded /\ Type(In) = "init" /\ prev.state = Initialized
    /\ In.dst = prev.id /\ In.body.payload.node_id # prev.id
    /\ OnlyError(MalformedRequest)

\* C5 as stated: an acknowledgement-class payload never makes the node emit
\* an envelope, in any lifecycle state and whatever the envelope's src and dest.
C5_AckNeverReplied == (Decoded /\ Type(In) \in AckTypes) => outbound = <<>>

\* C5 as amended: an acknowledgement-class payload makes the node emit nothing
\* and change nothing when the node is in Created or the envelope's dest is
\* the node's id; when the dest differs from an initialized node's id the
\* addressing check answers it with the malformed_request error.
C5_AddressedAckNotReplied ==
    (Decoded /\ Type(In) \in AckTypes)
    => IF Misaddressed
       THEN OnlyError(MalformedRequest)
       ELSE outbound = <<>> /\ Now = prev

C5_Witness ==
    /\ Decoded /\ Type(In) \in AckTypes
    /\ prev.state = Initialized /\ In.dst = prev.id /\ In.src \in Procs
    /\ outbound = <<>>

\* C6: an error payload is terminal: the node emits no envelope for it.
C6_ErrorIsTerminal == (Decoded /\ Type(In) = "error") => outbound = <<>>

\* C7: every reply an initialized node emits has src = the node's id,
\* dest = the inbound src and in_reply_to = the inbound msg_id, also when the
\* inbound envelope was addressed to another id.  The reply is the envelope
\* written last; the envelopes spread before it carry no in_reply_to.
Reply == outbound[Len(outbound)]
C7_ReplyAddressing ==
    (Decoded /\ Now.state = Initialized /\ outbound # <<>>)
    => /\ Reply.src = Now.id
       /\ Reply.dst = In.src
       /\ Reply.body.in_reply_to = In.body.msg_id
       /\ \A i \in 1..(Len(outbound) - 1) :
              outbound[i].src = Now.id /\ outbound[i].body.in_reply_to = NoneI

C7_Witness ==
    /\ Decoded /\ prev.state = Initialized /\ In.dst # prev.id
    /\ In.body.msg_id # NoneI
    /\ outbound # <<>> /\ Reply.src = prev.id /\ Reply.src # In.dst

\* C8: the msg_ids a node writes are strictly increasing in emission order,
\* each above every id written before (the counter holds the last id written).
IdOf(e) == e.body.msg_id[1]
C8_IdsStrictlyIncrease ==
    handled > 0 =>
        \A i \in 1..Len(outbound) :
            /\ outbound[i].body.msg_id # NoneI
            /\ IdOf(outbound[i]) >
                   (IF i = 1 THEN prev.next_message_id ELSE IdOf(outbound[i - 1]))

\* C9: once initialized, an envelope whose dest differs from the node's id is
\* answered with a malformed_request error, whatever its payload, and nothing
\* of it is processed: the node's fields stay as they were and nothing is
\* forwarded.
C9_MisaddressedRejected ==
    (Decoded /\ Misaddressed)
    => /\ OnlyError(MalformedRequest)
       /\ SameButCounter(Now, prev)

C9_Witness ==
    /\ Decoded /\ Misaddressed /\ Type(In) = "rumor"
    /\ prev.neighbours # <<>>
    /\ ~Contains(prev.heard_rumors, In.body.payload.id)
    /\ OnlyError(MalformedRequest)

SeenRumor == Decoded /\ Type(In) = "rumor" /\ Contains(prev.heard_rumors, In.body.payload.id)

\* C10 as stated: a rumor whose id the node has seen leaves knowledge set and
\* seen-rumor set unchanged, forwards nothing, and the only envelope written
\* is the rumor_ok acknowledgement.
C10_SeenRumorOnlyAcked ==
    SeenRumor
    => /\ Now.broadcast_messages = prev.broadcast_messages
       /\ Now.heard_rumors = prev.heard_rumors
       /\ OnlyReply("rumor_ok")

\* C10 as amended: a rumor whose id the node has seen leaves knowledge set and
\* seen-rumor set unchanged and forwards nothing; the only envelope written is
\* the rumor_ok acknowledgement, or, when the envelope's dest differs from the
\* initialized node's id, the malformed_request error.
C10_SeenRumorChangesNothing ==
    SeenRumor
    => /\ Now.broadcast_messages = prev.broadcast_messages
       /\ Now.heard_rumors = prev.heard_rumors
       /\ IF Misaddressed THEN OnlyError(MalformedRequest) ELSE OnlyReply("rumor_ok")

C10_Witness ==
    /\ SeenRumor /\ ~Misaddressed
    /\ prev.neighbours # <<>>
    /\ In.body.payload.data \notin Knowledge(prev)
    /\ OnlyReply("rumor_ok")


NoDuplicates(s) == \A i \in 1..Len(s), j \in 1..Len(s) : i # j => s[i] # s[j]

\* C11: the messages list of a read_ok reply holds each value at most once,
\* whatever broadcast and rumor envelopes came before.  Stated for
\* initialized nodes; what a node takes in before init is the case of C1.
C11_ReadHasNoDuplicates ==
    (Decoded /\ prev.state = Initialized /\ OnlyReply("read_ok"))
    => NoDuplicates(outbound[1].body.payload.messages)

\* C12: when handling an envelope ends in an error reply, the error is the
\* only envelope written, every field of the node but the id counter is what
\* it was before, and the process goes on to read its next line.
C12_ErrorsChangeNothing ==
    (Decoded /\ outbound # <<>> /\ Type(Reply) = "error")
    => /\ Len(outbound) = 1
       /\ SameButCounter(Now, prev)
       /\ running[inbound.proc]

C12_Witness ==
    /\ Decoded /\ Type(In) = "topology" /\ In.body.payload.topology = BadShape
    /\ prev.state = Initialized /\ In.dst = prev.id
    /\ prev.neighbours # <<>> /\ prev.broadcast_messages # <<>>
    /\ OnlyError(MalformedRequest)

\* C13: a line whose payload type this build does not implement is answered
\* with an error reply of code not_supported (10).
C13_UnknownIsNotSupported ==
    (handled > 0 /\ ~Parses(In)) => OnlyError(NotSupported)


\* C14: when the Store requests are sent one after another, each is answered
\* with the length its key's log had before it, which makes the offsets of
\* one key 0, 1, 2, ... in the order of the requests; the value is appended
\* to that log and the log of every other key is left as it was.
Earlier(r) == {q \in answered : q.key = r.key /\ q.n < r.n}
C14_Append ==
    /\ \A r \in answered' \ answered :
           /\ r.offset = Len(Get0(r.key))
           /\ Get0(r.key)' = Append(Get0(r.key), r.msg)
           /\ \A key \in Keys \ {r.key} : Get0(key)' = Get0(key)
    /\ answered' = answered => map' = map
C14_SerialOffsetsDense ==
    /\ [](\A r \in answered : r.offset = Cardinality(Earlier(r)))
    /\ [][C14_Append]_vars

C14_Witness ==
    \E r1 \in answered, r2 \in answered, r3 \in answered :
        /\ r1.n < r2.n /\ r2.n < r3.n
        /\ r1.key = r3.key /\ r2.key # r1.key
        /\ r3.offset = 1 /\ r2.offset = 0

\* C15: Get(key, offset) is answered with the values of the key's log from
\* position offset to its end, in the log's order: none when the key has no
\* log or offset is at or past the log's length; and it leaves the store as
\* it was.
C15_Get ==
    \A c \in Conns :
        (conn[c].pc = "read" /\ conn'[c].pc = "read"
            /\ conn'[c] # conn[c] /\ conn'[c].reply.type = "Get")
        => LET log == Get0(conn'[c].key)
               offset == conn'[c].offset
               values == conn'[c].reply.values
           IN /\ Len(values) = (IF offset >= Len(log) THEN 0 ELSE Len(log) - offset)
              /\ \A i \in 1..Len(values) : values[i] = log[offset + i]
              /\ map' = map
C15_GetReturnsSuffix == [][C15_Get]_vars

C15_Witness ==
    \E c \in Conns :
        /\ conn[c].reply.type = "Get" /\ conn[c].offset = 1
        /\ Len(Get0(conn[c].key)) = 3
        /\ Len(conn[c].reply.values) = 2


(* a topology payload whose mapping has a list of ids under the node's id,
   read by an initialized node *)
OwnEntry == In.body.payload.topology.entries[prev.id]
TopologyWithOwnEntry ==
    /\ Decoded /\ Type(In) = "topology" /\ prev.state = Initialized
    /\ In.body.payload.topology.kind = "object"
    /\ prev.id \in DOMAIN In.body.payload.topology.entries
    /\ OwnEntry.kind = "array"
Replaced ==
    /\ Now.neighbours = OwnEntry.items
    /\ Now = [prev EXCEPT !.neighbours = OwnEntry.items,
                          !.next_message_id = Now.next_message_id]
    /\ OnlyReply("topology_ok")

\* C16 as stated: on an initialized node a topology payload makes the
\* neighbour list the entry under the node's id, whatever the list was before
\* (empty, the same entry from an earlier application of the same payload, or
\* another topology's entry), changes nothing else and is answered
\* topology_ok.
C16_TopologyReplaces == TopologyWithOwnEntry => Replaced

\* C16 as amended: the same for a topology envelope whose dest is the node's
\* id; one whose dest differs is answered with the malformed_request error
\* and leaves the neighbour list as it was.
C16_AddressedTopologyReplaces ==
    TopologyWithOwnEntry
    => IF Misaddressed
       THEN OnlyError(MalformedRequest) /\ Now.neighbours = prev.neighbours
       ELSE Replaced

C16_Witness ==
    /\ TopologyWithOwnEntry /\ In.dst = prev.id
    /\ prev.neighbours # <<>> /\ prev.neighbours = OwnEntry.items
    /\ Now.neighbours = prev.neighbours
    /\ OnlyReply("topology_ok")


(* the envelopes written are one rumor(id, value) per entry of the neighbour
   list the node had, in the list's order, from the node's id and with no
   in_reply_to, and after them the reply of the given type *)
SpreadThenReply(id, value, type) ==
    /\ Len(outbound) = Len(prev.neighbours) + 1
    /\ \A i \in 1..Len(prev.neighbours) :
           /\ outbound[i].src = prev.id
           /\ outbound[i].dst = prev.neighbours[i]
           /\ outbound[i].body.in_reply_to = NoneI
           /\ outbound[i].body.payload = [type |-> "rumor", id |-> id, data |-> value]
    /\ Type(Reply) = type /\ IsReplyTo(Reply, In)
    /\ Now = [prev EXCEPT !.broadcast_messages = Append(@, value),
                          !.heard_rumors = Append(@, id),
                          !.next_message_id = Now.next_message_id]

InitializedBroadcast == Decoded /\ Type(In) = "broadcast" /\ prev.state = Initialized
Minted == Now.heard_rumors[Len(Now.heard_rumors)]
Originated ==
    /\ Len(Now.heard_rumors) = Len(prev.heard_rumors) + 1
    /\ ~Contains(prev.heard_rumors, Minted)
    /\ SpreadThenReply(Minted, In.body.payload.message, "broadcast_ok")

\* C17 as stated: a broadcast(value) read by an initialized node appends
\* value to the knowledge list, records a rumor id the node had not seen,
\* writes one Rumor(id, value) per neighbour (src the node's id, no
\* in_reply_to) and after them the one broadcast_ok reply, also when the
\* node already knows the value.
C17_BroadcastOriginates == InitializedBroadcast => Originated

\* C17 as amended: the same for a broadcast envelope whose dest is the node's
\* id; one whose dest differs is answered with the malformed_request error
\* alone and changes nothing.
C17_AddressedBroadcastOriginates ==
    InitializedBroadcast
    => IF Misaddressed
       THEN OnlyError(MalformedRequest) /\ SameButCounter(Now, prev)
       ELSE Originated

C17_Witness ==
    /\ InitializedBroadcast /\ In.dst = prev.id
    /\ Len(prev.neighbours) = 2
    /\ Contains(prev.broadcast_messages, In.body.payload.message)
    /\ Len(outbound) = 3 /\ Type(Reply) = "broadcast_ok"
    /\ outbound[1].body.payload.id \notin Range(prev.heard_rumors)

UnseenRumor ==
    Decoded /\ Type(In) = "rumor" /\ ~Contains(prev.heard_rumors, In.body.payload.id)
Relayed == SpreadThenReply(In.body.payload.id, In.body.payload.data, "rumor_ok")

\* C18 as stated: a rumor whose id the node has not seen appends its value
\* to the knowledge list, records the id, and is written with the same id and
\* value to every neighbour of the node, the one it came from included,
\* before the rumor_ok reply to the sender.
C18_UnseenRumorRelayed == UnseenRumor => Relayed

\* C18 as amended: the same for a rumor envelope whose dest is the node's id
\* (or read before the node has an id); one whose dest differs from an
\* initialized node's id is answered with the malformed_request error alone
\* and changes nothing.
C18_AddressedUnseenRumorRelayed ==
    UnseenRumor
    => IF Misaddressed
       THEN OnlyError(MalformedRequest) /\ SameButCounter(Now, prev)
       ELSE Relayed

C18_Witness ==
    /\ UnseenRumor /\ prev.state = Initialized /\ In.dst = prev.id
    /\ Len(prev.neighbours) = 2 /\ Contains(prev.neighbours, In.src)
    /\ Len(outbound) = 3 /\ Type(Reply) = "rumor_ok"
    /\ \E i \in 1..2 : outbound[i].dst = In.src /\ outbound[i].body.payload = In.body.payload


\* C19: in every state of every node the knowledge list and the list of seen
\* rumor ids have the same length and no rumor id is in its list twice; each
\* step that adds a value adds exactly one rumor id with it, the id of the
\* rumor envelope when the node relays one.
C19_Paired ==
    /\ \A p \in Procs :
           /\ Len(node[p].broadcast_messages) = Len(node[p].heard_rumors)
           /\ NoDuplicates(node[p].heard_rumors)
    /\ (Decoded /\ Now.broadcast_messages # prev.broadcast_messages)
       => /\ Len(Now.broadcast_messages) = Len(prev.broadcast_messages) + 1
          /\ Len(Now.heard_rumors) = Len(prev.heard_rumors) + 1
          /\ ~Contains(prev.heard_rumors, Minted)
          /\ Type(In) \in {"broadcast", "rumor"}
          /\ Type(In) = "rumor" => Minted = In.body.payload.id

C19_Witness ==
    /\ Decoded /\ Type(In) = "rumor" /\ prev.state = Initialized
    /\ Len(prev.heard_rumors) = 1 /\ Len(Now.heard_rumors) = 2
    /\ Now.broadcast_messages[1] = Now.broadcast_messages[2]
    /\ Now.heard_rumors[1] # Now.heard_rumors[2]
    /\ \E i \in 1..Len(outbound) : Type(outbound[i]) = "rumor"


RECURSIVE Sum(_, _)
Sum(f, S) == IF S = {} THEN 0
             ELSE LET x == CHOOSE x \in S : TRUE IN f[x] + Sum(f, S \ {x})
Forwards == Sum([p \in Procs |-> Sum(relayed[p], Uuids)], Procs)
InFlightRumors == {m \in network : m.body.payload.type = "rumor"}

\* C20: no node writes Rumor envelopes for one rumor id more than once, so
\* the number of times Rumor envelopes were written never exceeds the number
\* of nodes times the number of broadcast requests sent; a rumor_ok makes its
\* receiver write nothing; and with every envelope in flight eventually
\* delivered or lost the cluster comes to rest with no envelope in flight.
C20_RelayedOnce ==
    /\ \A p \in Procs, u \in Uuids : relayed[p][u] <= 1
    /\ Forwards <= Cardinality(Procs) * sent
C20_AckIsSilent ==
    \A m \in network :
        (m.body.payload.type = "rumor_ok" /\ m \notin network')
        => /\ network' = network \ {m}
           /\ relayed' = relayed
           /\ node' = node
C20_Quiesces ==
    /\ []C20_RelayedOnce
    /\ [][C20_AckIsSilent]_vars
    /\ <>[](network = {})

C20_Witness ==
    /\ network = {}
    /\ sent = MaxBroadcasts
    /\ \E u \in Uuids : \A p \in Procs : relayed[p][u] = 1


\* C21: in a cluster whose Rumor envelopes are all written by its nodes, every
\* value in a node's knowledge list, and every value a Rumor in flight
\* carries, is the value of a broadcast request some node handled before
\* (accepted; the nodes of SpecLossy are all past their init); and the step
\* in which a node handles a read leaves every field of every node as it was,
\* but for the id counter the read_ok reply takes its msg_id from.
C21_Valid ==
    /\ \A p \in Procs : Knowledge(node[p]) \subseteq accepted
    /\ \A m \in InFlightRumors : m.body.payload.data \in accepted
C21_ReadStep ==
    (reads = "sent" /\ reads' = "handled")
    => /\ \A p \in Procs : SameButCounter(node'[p], node[p])
       /\ accepted' = accepted
       /\ InFlightRumors' = InFlightRumors
C21_ValidAndReadChangesNothing == []C21_Valid /\ [][C21_ReadStep]_vars

C21_Witness ==
    /\ reads = "handled"
    /\ \E v \in accepted : Converged(v)
    /\ \E p \in Procs, u \in Uuids :
           Contains(node[p].heard_rumors, u) /\ relayed[p][u] = 1

=============================================================================
